---- MODULE Spec2Model ----
(***************************************************************************)
(* A model of auto_reviewer.core.static_analysis: the StaticAnalyzer,      *)
(* its metrics, its regular-expression pattern catalog and the issue list  *)
(* it builds.                                                              *)
(*                                                                         *)
(* Source text is a sequence of tokens.  A token stands for the characters *)
(* it is written with ("for", "(", " ", "\n", ...): the regular            *)
(* expressions of the catalog are transcribed token by token, a literal    *)
(* being the set of tokens of the alphabet that contain it.  Floating      *)
(* point values are fixed point, in thousandths.                           *)
(***************************************************************************)
EXTENDS Integers, Sequences, FiniteSets, TLC

\* patterns: self.patterns of the StaticAnalyzer; call: the call in progress,
\* or the last one; heap: the dicts that load_config and get_default_config
\* returned, which their callers hold and may change
VARIABLES patterns, call, heap

vars == <<patterns, call, heap>>

(***************************************************************************)
(* Bounds of the model.                                                    *)
(***************************************************************************)
\* the longest input text, in lines
MaxLines == 3
\* the largest syntax tree given to the tree metrics alone, in nodes below
\* the Module node
MaxNodes == 3

\* the complexity above which _collect_issues reports it
ComplexityThreshold == 10

(***************************************************************************)
(* Source text.                                                            *)
(***************************************************************************)
NL == "\n"
SP == " "

\* str.split('\n') / str.strip() / \s : the whitespace of the alphabet
Space == {SP, NL}

\* the identifier-shaped tokens of the alphabet: \b[a-zA-Z_]\w*\b
Identifiers ==
    {"x", "a", "b", "c", "i", "f", "exec", "eval", "os", "system",
     "subprocess", "call", "execute", "for", "in", "range", "len", "if",
     "and", "or", "def", "return", "pass"}

\* \w+ : identifiers and numbers
Word == Identifiers \cup {"1"}

\* the characters of the class [+\-*/%=<>!&|^~] that the alphabet has
OperatorChars == {"=", "%"}

Alphabet ==
    Word \cup Space \cup OperatorChars \cup {"#", "(", ")", ".", ":", "{", "}", "'"}

RECURSIVE Repeat(_, _)
Repeat(s, n) == IF n <= 0 THEN <<>> ELSE s \o Repeat(s, n - 1)

\* `x=a and a ... and a` with n operands
BoolAssign(n) == <<"x", "=", "a">> \o Repeat(<<SP, "and", SP, "a">>, n - 1)

\* the statements input texts are written with, one to a line
StmtTokens(kind, n) ==
    CASE kind = "blank"   -> <<>>
      [] kind = "comment" -> <<"#", "x">>
      [] kind = "num"     -> <<"1">>
      [] kind = "exec"    -> <<"exec", "(", "x", ")">>
      [] kind = "system"  -> <<"os", ".", "system", "(", "x", ")">>
      [] kind = "forlen"  -> <<"for", SP, "i", SP, "in", SP, "range", "(", "len",
                               "(", "x", ")", ")", ":">>
      [] kind = "for"     -> <<"for", SP, "i", SP, "in", SP, "x", ":", SP, "pass">>
      [] kind = "ifbool"  -> <<"if", SP, "a", SP, "and", SP, "b", SP, "or", SP,
                               "c", ":", SP, "pass">>
      [] kind = "def"     -> <<"def", SP, "f", "(", ")", ":", SP, "return", SP,
                               "{", "}">>
      [] kind = "nocolon" -> <<"def", SP, "f", "(", ")">>
      [] kind = "bool"    -> BoolAssign(n)

\* the operands of the `x=a and a ...` statement of the input texts: as many
\* as make the complexity of the statement alone the greatest that is not
\* reported
BoolOperands == ComplexityThreshold

\* the lines input texts are written with: every statement unindented, and
\* two of them indented as well, to stand in a block or to be misplaced
InputLines ==
    {[indent |-> 0, kind |-> k, n |-> 0] :
        k \in {"blank", "comment", "nocolon", "num", "exec", "system", "forlen",
               "for", "ifbool", "def"}}
    \cup {[indent |-> 0, kind |-> "bool", n |-> BoolOperands]}
    \cup {[indent |-> 1, kind |-> k, n |-> 0] : k \in {"exec", "for"}}

RenderLine(l) == Repeat(<<SP>>, l.indent) \o StmtTokens(l.kind, l.n)

RECURSIVE Render(_)
Render(ls) ==
    IF Len(ls) = 0 THEN <<>>
    ELSE IF Len(ls) = 1 THEN RenderLine(ls[1])
    ELSE RenderLine(ls[1]) \o <<NL>> \o Render(Tail(ls))

\* the texts of at most `most` lines
Texts(most) == {Render(ls) : ls \in UNION {[1..n -> InputLines] : n \in 0..most}}

\* code.split('\n')
RECURSIVE SplitFrom(_, _)
\* the lines of the text from position pos on
SplitFrom(code, pos) ==
    LET newlines == {i \in pos..Len(code) : code[i] = NL}
    IN  IF newlines = {} THEN <<SubSeq(code, pos, Len(code))>>
        ELSE LET next == CHOOSE i \in newlines : \A j \in newlines : i <= j
             IN  <<SubSeq(code, pos, next - 1)>> \o SplitFrom(code, next + 1)

Split(code) == SplitFrom(code, 1)

RECURSIVE LStrip(_)
LStrip(s) == IF Len(s) > 0 /\ s[1] \in Space THEN LStrip(Tail(s)) ELSE s

RECURSIVE RStrip(_)
RStrip(s) ==
    IF Len(s) > 0 /\ s[Len(s)] \in Space THEN RStrip(SubSeq(s, 1, Len(s) - 1)) ELSE s

\* line.strip()
Strip(s) == RStrip(LStrip(s))

\* the number of indices of s whose element satisfies Test
CountIf(s, Test(_)) == Cardinality({i \in DOMAIN s : Test(s[i])})

(***************************************************************************)
(* Syntax trees.  A tree is the sequence of its nodes, the Module node     *)
(* first and every node after its parent; a node has the class of the ast  *)
(* node it stands for, the index of its parent and, for a BoolOp,          *)
(* len(node.values).  Expression contexts and operator markers (Load,      *)
(* Store, And, Or), which no metric counts, are left out.                  *)
(***************************************************************************)
Node(kind, parent, values) == [kind |-> kind, parent |-> parent, values |-> values]

\* the nodes of one statement; `parent` is an index into the same list, or 0
\* for the node the statement hangs under
StmtNodes(kind, n) ==
    CASE kind = "num"    -> <<Node("Expr", 0, 0), Node("Constant", 1, 0)>>
      [] kind = "exec"   -> <<Node("Expr", 0, 0), Node("Call", 1, 0),
                              Node("Name", 2, 0), Node("Name", 2, 0)>>
      [] kind = "system" -> <<Node("Expr", 0, 0), Node("Call", 1, 0),
                              Node("Attribute", 2, 0), Node("Name", 3, 0),
                              Node("Name", 2, 0)>>
      [] kind = "forlen" -> <<Node("For", 0, 0), Node("Name", 1, 0),
                              Node("Call", 1, 0), Node("Name", 3, 0),
                              Node("Call", 3, 0), Node("Name", 5, 0),
                              Node("Name", 5, 0)>>
      [] kind = "for"    -> <<Node("For", 0, 0), Node("Name", 1, 0),
                              Node("Name", 1, 0), Node("Pass", 1, 0)>>
      [] kind = "ifbool" -> <<Node("If", 0, 0), Node("BoolOp", 1, 2),
                              Node("BoolOp", 2, 2), Node("Name", 3, 0),
                              Node("Name", 3, 0), Node("Name", 2, 0),
                              Node("Pass", 1, 0)>>
      [] kind = "def"    -> <<Node("FunctionDef", 0, 0), Node("arguments", 1, 0),
                              Node("Return", 1, 0), Node("Dict", 3, 0)>>
      [] kind = "bool"   -> <<Node("Assign", 0, 0), Node("Name", 1, 0),
                              Node("BoolOp", 1, n)>>
                            \o [j \in 1..n |-> Node("Name", 3, 0)]

\* the statements that are a compound statement's header, with its block on
\* the lines that follow
Openers == {"forlen"}

\* no tree: ast.parse raised SyntaxError
SyntaxError == <<>>

IsBoolAssign(body) ==
    /\ Len(body) >= 7
    /\ (Len(body) - 3) % 4 = 0
    /\ body = BoolAssign(1 + (Len(body) - 3) \div 4)

\* the statement a stripped line is: [kind, n], kind "none" for a line the
\* tokenizer skips (blank, comment only), "bad" for no statement
Recognize(body) ==
    IF body = <<>> \/ body[1] = "#" THEN [kind |-> "none", n |-> 0]
    ELSE IF IsBoolAssign(body)
         THEN [kind |-> "bool", n |-> 1 + (Len(body) - 3) \div 4]
    ELSE LET ks == {k \in {"num", "exec", "system", "forlen", "for", "ifbool", "def"} :
                      StmtTokens(k, 0) = body}
         IN  IF ks = {} THEN [kind |-> "bad", n |-> 0]
             ELSE [kind |-> CHOOSE k \in ks : TRUE, n |-> 0]

\* the width of a line's indentation
RECURSIVE Indent(_)
Indent(line) == IF Len(line) > 0 /\ line[1] = SP THEN 1 + Indent(Tail(line)) ELSE 0

\* the statement's nodes, hung under node `owner` of a tree of `base` nodes
Hang(nodes, owner, base) ==
    [j \in DOMAIN nodes |->
        Node(nodes[j].kind,
             IF nodes[j].parent = 0 THEN owner ELSE base + nodes[j].parent,
             nodes[j].values)]

\* the indentation stack without the blocks a line of width w closes
RECURSIVE Dedent(_, _)
Dedent(stack, w) ==
    IF Len(stack) > 1 /\ stack[Len(stack)].width > w
    THEN Dedent(SubSeq(stack, 1, Len(stack) - 1), w)
    ELSE stack

\* the lines from the i-th on.  stack: the open blocks, each with the width of
\* its indentation and the node that owns it; pending: the node of the header
\* whose block has not begun, or 0.
RECURSIVE ParseLines(_, _, _, _, _)
ParseLines(lines, i, tree, stack, pending) ==
    IF i > Len(lines)
    THEN IF pending # 0 THEN SyntaxError ELSE tree
    ELSE LET st == Recognize(Strip(lines[i]))
             w  == Indent(lines[i])
             top == stack[Len(stack)]
         IN  IF st.kind = "none" THEN ParseLines(lines, i + 1, tree, stack, pending)
             ELSE IF st.kind = "bad" THEN SyntaxError
             ELSE IF pending # 0 /\ w <= top.width THEN SyntaxError
             ELSE IF pending = 0 /\ w > top.width THEN SyntaxError
             ELSE LET stk == IF pending # 0
                             THEN Append(stack, [width |-> w, owner |-> pending])
                             ELSE Dedent(stack, w)
                      blk == stk[Len(stk)]
                  IN  IF blk.width # w THEN SyntaxError
                      ELSE ParseLines(lines, i + 1,
                               tree \o Hang(StmtNodes(st.kind, st.n), blk.owner, Len(tree)),
                               stk,
                               IF st.kind \in Openers THEN Len(tree) + 1 ELSE 0)

\* ast.parse(code): the tree, or SyntaxError
Parse(code) ==
    ParseLines(Split(code), 1, <<Node("Module", 0, 0)>>,
               <<[width |-> 0, owner |-> 1]>>, 0)

(***************************************************************************)
(* Metrics.                                                                *)
(***************************************************************************)
\* the node classes _calculate_complexity adds 1 for
DecisionClasses ==
    {"If", "While", "For", "Try", "ExceptHandler", "With", "Assert", "AsyncFor",
     "AsyncWith"}

\* NodeComplexity with len(node.values) for len(node.values) - 1
NodeComplexity_EveryOperand(node) ==
    IF node.kind \in DecisionClasses THEN 1
    ELSE IF node.kind = "BoolOp" THEN node.values
    ELSE 0

\* what one node of ast.walk(tree) adds to the complexity
NodeComplexity(node) ==
    IF node.kind \in DecisionClasses THEN 1
    ELSE IF node.kind = "BoolOp" THEN node.values - 1
    ELSE 0

RECURSIVE WalkSum(_, _)
WalkSum(tree, i) ==
    IF i > Len(tree) THEN 0 ELSE NodeComplexity(tree[i]) + WalkSum(tree, i + 1)

_calculate_complexity(tree) == 1 + WalkSum(tree, 1)

\* the visitor with a visit_ExceptHandler method as well
VisitedClasses_WithHandlers == {"If", "While", "For", "Try", "ExceptHandler"}

\* the node classes CognitiveComplexityVisitor has a visit_ method for
VisitedClasses == {"If", "While", "For", "Try"}

\* the visitor without `self.nesting += 1`
RECURSIVE VisitNode_Flat(_, _, _), VisitChildren_Flat(_, _, _, _)
VisitNode_Flat(tree, i, nesting) ==
    (IF tree[i].kind \in VisitedClasses THEN 1 + nesting ELSE 0)
    + VisitChildren_Flat(tree, i, i + 1, nesting)

VisitChildren_Flat(tree, i, j, nesting) ==
    IF j > Len(tree) THEN 0
    ELSE (IF tree[j].parent = i THEN VisitNode_Flat(tree, j, nesting) ELSE 0)
         + VisitChildren_Flat(tree, i, j + 1, nesting)

\* visitor.visit(node) with self.nesting = nesting: what it adds to
\* self.complexity.  VisitChildren is generic_visit from child j on.
RECURSIVE VisitNode(_, _, _), VisitChildren(_, _, _, _)
VisitNode(tree, i, nesting) ==
    IF tree[i].kind \in VisitedClasses
    THEN (1 + nesting) + VisitChildren(tree, i, i + 1, nesting + 1)
    ELSE VisitChildren(tree, i, i + 1, nesting)

VisitChildren(tree, i, j, nesting) ==
    IF j > Len(tree) THEN 0
    ELSE (IF tree[j].parent = i THEN VisitNode(tree, j, nesting) ELSE 0)
         + VisitChildren(tree, i, j + 1, nesting)

_calculate_cognitive_complexity(tree) == VisitNode(tree, 1, 0)

\* fixed point: a float is the integer nearest below a thousand times it
Milli == 1000

RECURSIVE Log2Floor(_)
Log2Floor(n) == IF n < 2 THEN 0 ELSE 1 + Log2Floor(n \div 2)

RECURSIVE Pow2(_)
Pow2(k) == IF k = 0 THEN 1 ELSE 2 * Pow2(k - 1)

\* ln 2, in thousandths
Ln2Milli == 693

\* math.log(n) for an integer n >= 1, in thousandths:
\* n = 2^k * m, ln n = k ln 2 + 2 (z + z^3/3 + z^5/5), z = (m - 1)/(m + 1)
LnMilli(n) ==
    LET k  == Log2Floor(n)
        p  == Pow2(k)
        z  == ((n - p) * Milli) \div (n + p)
        z2 == (z * z) \div Milli
        z3 == (z2 * z) \div Milli
        z5 == (z3 * z2) \div Milli
    IN  k * Ln2Milli + 2 * (z + z3 \div 3 + z5 \div 5)

\* math.log(v) for v a positive number of thousandths, in thousandths
LnOfMilli(v) == LnMilli(v) - LnMilli(Milli)

Max(a, b) == IF a >= b THEN a ELSE b
Min(a, b) == IF a <= b THEN a ELSE b

Returned(v) == [exc |-> "", val |-> v]
Raised(e) == [exc |-> e, val |-> 0]

\* max(0, min(100, maintainability))
Clamp(m) == Max(0, Min(100 * Milli, m))

\* len([line for line in lines if line.strip()])
LinesOfCode(code) ==
    LET IsCode(line) == Strip(line) # <<>>
    IN  CountIf(Split(code), IsCode)

\* len([line for line in lines if line.strip().startswith('#')])
CommentLines(code) ==
    LET IsComment(line) == Strip(line) # <<>> /\ Strip(line)[1] = "#"
    IN  CountIf(Split(code), IsComment)

\* the Halstead volume approximation, in thousandths
HalsteadVolume(code) ==
    LET loc == LinesOfCode(code)
        unique_operators == Cardinality({code[i] : i \in DOMAIN code} \cap OperatorChars)
        unique_operands == Cardinality({code[i] : i \in DOMAIN code} \cap Identifiers)
    IN  (unique_operators + unique_operands) * LnMilli(IF loc > 0 THEN loc ELSE 1)

_calculate_maintainability(code) ==
    LET loc == LinesOfCode(code)
        comment_lines == CommentLines(code)
        volume == HalsteadVolume(code)
        tree == Parse(code)
        comment_ratio == IF loc > 0 THEN (comment_lines * Milli) \div loc ELSE 0
        maintainability ==
            171 * Milli - (52 * LnOfMilli(volume)) \div 10
            - (23 * _calculate_complexity(tree) * Milli) \div 100
            + 50 * comment_ratio
    IN  IF volume <= 0 THEN Raised("ValueError")      \* math.log: math domain error
        ELSE IF tree = SyntaxError THEN Raised("SyntaxError")
        ELSE Returned(Clamp(maintainability))

(***************************************************************************)
(* Regular expressions over tokens.  A pattern is a sequence of            *)
(* alternatives, tried in order; an alternative is a sequence of items; an *)
(* item is a set of tokens with a quantifier: "1", "*" or "+" (greedy).    *)
(***************************************************************************)
One(cls) == [cls |-> cls, q |-> "1"]
Star(cls) == [cls |-> cls, q |-> "*"]
Plus(cls) == [cls |-> cls, q |-> "+"]

\* a literal: the tokens of the alphabet it is found in
Lit(t) == One({t})
\* .
Dot == Alphabet \ {NL}

\* how many tokens of cls follow one another from pos on
RunLen(text, pos, cls) ==
    LET others == {i \in pos..Len(text) : text[i] \notin cls}
    IN  IF others = {} THEN Len(text) + 1 - pos
        ELSE (CHOOSE i \in others : \A j \in others : i <= j) - pos

\* the end (the index after the last token matched) of the match of the items
\* from the k-th on at pos, as a backtracking matcher finds it, or 0 for none
RECURSIVE MatchItems(_, _, _, _), MatchGreedy(_, _, _, _, _, _)
MatchItems(items, k, text, pos) ==
    IF k > Len(items) THEN pos
    ELSE IF items[k].q = "1"
         THEN IF pos <= Len(text) /\ text[pos] \in items[k].cls
              THEN MatchItems(items, k + 1, text, pos + 1)
              ELSE 0
    ELSE MatchGreedy(items, k, text, pos, RunLen(text, pos, items[k].cls),
                     IF items[k].q = "+" THEN 1 ELSE 0)

MatchGreedy(items, k, text, pos, j, least) ==
    LET fits == {n \in least..j : MatchItems(items, k + 1, text, pos + n) # 0}
    IN  IF fits = {} THEN 0
        ELSE MatchItems(items, k + 1, text, pos + (CHOOSE n \in fits : \A m \in fits : m <= n))

\* pattern.match at pos: the end of the first alternative that matches, or 0
RECURSIVE MatchAt(_, _, _, _)
MatchAt(pattern, a, text, pos) ==
    IF a > Len(pattern) THEN 0
    ELSE LET e == MatchItems(pattern[a], 1, text, pos)
         IN  IF e # 0 THEN e ELSE MatchAt(pattern, a + 1, text, pos)

\* re.finditer(pattern, text) from pos on: the matches, each [start, end],
\* left to right, the scan going on where the last match ended
RECURSIVE FindIterFrom(_, _, _)
FindIterFrom(pattern, text, pos) ==
    LET starts == {p \in pos..(Len(text) + 1) : MatchAt(pattern, 1, text, p) # 0}
    IN  IF starts = {} THEN <<>>
        ELSE LET p == CHOOSE i \in starts : \A j \in starts : i <= j
                 e == MatchAt(pattern, 1, text, p)
             IN  <<[start |-> p, end |-> e]>>
                 \o FindIterFrom(pattern, text, IF e > p THEN e ELSE p + 1)

finditer(pattern, text) == FindIterFrom(pattern, text, 1)

(***************************************************************************)
(* The pattern catalog: self.patterns, a dict of dicts in insertion order. *)
(***************************************************************************)
Rule(name, pattern, description) ==
    [name |-> name, pattern |-> pattern, description |-> description]

\* (eval|exec)\s*\(
EvalExecRe == << <<One({"eval", "exec"}), Star(Space), Lit("(")>> >>
\* (os\.system|subprocess\.call)
ShellInjectionRe ==
    << <<Lit("os"), Lit("."), Lit("system")>>,
       <<Lit("subprocess"), Lit("."), Lit("call")>> >>
\* execute\s*\(\s*['"][^']*%[^']*['"]\s*%
SqlInjectionRe ==
    << <<Lit("execute"), Star(Space), Lit("("), Star(Space), Lit("'"),
         Star(Alphabet \ {"'"}), Lit("%"), Star(Alphabet \ {"'"}), Lit("'"),
         Star(Space), Lit("%")>> >>
\* for\s+\w+\s+in\s+range\(len\(
ListInLoopRe ==
    << <<Lit("for"), Plus(Space), Plus(Word), Plus(Space), Lit("in"), Plus(Space),
         Lit("range"), Lit("("), Lit("len"), Lit("(")>> >>
\* for.*:\s*\n\s*for.*:
NestedLoopsRe ==
    << <<Lit("for"), Star(Dot), Lit(":"), Star(Space), Lit(NL), Star(Space),
         Lit("for"), Star(Dot), Lit(":")>> >>
\* def\s+\w+[^}]*\}
LongFunctionRe ==
    << <<Lit("def"), Plus(Space), Plus(Word), Star(Alphabet \ {"}"}), Lit("}")>> >>
\* if.*and.*or.*:   ("or" is found in "for" too)
ComplexConditionRe ==
    << <<Lit("if"), Star(Dot), Lit("and"), Star(Dot), One({"or", "for"}), Star(Dot),
         Lit(":")>> >>

_setup_patterns ==
    << [category |-> "security",
        rules |-> << Rule("eval_exec", EvalExecRe, "Use of eval() or exec()"),
                     Rule("shell_injection", ShellInjectionRe, "Potential shell injection"),
                     Rule("sql_injection", SqlInjectionRe, "Potential SQL injection") >>],
       [category |-> "performance",
        rules |-> << Rule("list_in_loop", ListInLoopRe, "Inefficient list iteration"),
                     Rule("nested_loops", NestedLoopsRe, "Nested loops detected") >>],
       [category |-> "maintainability",
        rules |-> << Rule("long_function", LongFunctionRe, "Long function definition"),
                     Rule("complex_condition", ComplexConditionRe, "Complex conditional") >>] >>

(***************************************************************************)
(* Pattern matching and the issue list.  A dict is the sequence of its     *)
(* items, [key, value], in insertion order; an attribute that is None or   *)
(* an int is a sequence of no element or of one.                           *)
(***************************************************************************)
None == <<>>
IntValue(n) == <<n>>

\* code.count('\n', 0, start) + 1
LineNo(code, start) ==
    Cardinality({i \in 1..(start - 1) : i <= Len(code) /\ code[i] = NL}) + 1

\* RuleFindings with match.end() for match.start()
RuleFindings_AtEnd(rule, code) ==
    LET ms == finditer(rule.pattern, code)
    IN  [j \in DOMAIN ms |-> <<LineNo(code, ms[j].end), rule.description>>]

\* the findings of one rule: (line_no, description) for every match
RuleFindings(rule, code) ==
    LET ms == finditer(rule.pattern, code)
    IN  [j \in DOMAIN ms |-> <<LineNo(code, ms[j].start), rule.description>>]

\* category_results, from the k-th rule of the category on
RECURSIVE CategoryResults(_, _, _)
CategoryResults(rules, k, code) ==
    IF k > Len(rules) THEN <<>>
    ELSE RuleFindings(rules[k], code) \o CategoryResults(rules, k + 1, code)

\* FindFrom without `if category_results:`
RECURSIVE FindFrom_KeepEmpty(_, _, _)
FindFrom_KeepEmpty(catalog, c, code) ==
    IF c > Len(catalog) THEN <<>>
    ELSE <<[key |-> catalog[c].category,
            value |-> CategoryResults(catalog[c].rules, 1, code)]>>
         \o FindFrom_KeepEmpty(catalog, c + 1, code)

RECURSIVE FindFrom(_, _, _)
FindFrom(catalog, c, code) ==
    IF c > Len(catalog) THEN <<>>
    ELSE LET category_results == CategoryResults(catalog[c].rules, 1, code)
         IN  (IF category_results # <<>>
              THEN <<[key |-> catalog[c].category, value |-> category_results]>>
              ELSE <<>>)
             \o FindFrom(catalog, c + 1, code)

_find_patterns(catalog, code) == FindFrom(catalog, 1, code)

\* PatternIssue with the severity of a security finding for every finding
PatternIssue_AlwaysHigh(category, finding) ==
    [line |-> IntValue(finding[1]),
     category |-> category,
     severity |-> "high",
     message |-> finding[2]]

PatternIssue(category, finding) ==
    [line |-> IntValue(finding[1]),
     category |-> category,
     severity |-> IF category = "security" THEN "high" ELSE "medium",
     message |-> finding[2]]

ComplexityIssue(complexity) ==
    [line |-> None,
     category |-> "maintainability",
     severity |-> "medium",
     message |-> "High cyclomatic complexity: " \o ToString(complexity)]

\* the issues of the findings, from the c-th item of patterns_found on
RECURSIVE PatternIssues(_, _)
PatternIssues(patterns_found, c) ==
    IF c > Len(patterns_found) THEN <<>>
    ELSE [j \in DOMAIN patterns_found[c].value |->
             PatternIssue(patterns_found[c].key, patterns_found[c].value[j])]
         \o PatternIssues(patterns_found, c + 1)

\* _collect_issues with `complexity >= 10` for `complexity > 10`
_collect_issues_AtThreshold(tree, patterns_found) ==
    LET complexity == _calculate_complexity(tree)
    IN  PatternIssues(patterns_found, 1)
        \o (IF complexity >= ComplexityThreshold
            THEN <<ComplexityIssue(complexity)>>
            ELSE <<>>)

\* _collect_issues with the complexity check before the loop over the findings
_collect_issues_ComplexityFirst(tree, patterns_found) ==
    LET complexity == _calculate_complexity(tree)
    IN  (IF complexity > ComplexityThreshold
         THEN <<ComplexityIssue(complexity)>>
         ELSE <<>>)
        \o PatternIssues(patterns_found, 1)

_collect_issues(tree, patterns_found) ==
    LET complexity == _calculate_complexity(tree)
    IN  PatternIssues(patterns_found, 1)
        \o (IF complexity > ComplexityThreshold
            THEN <<ComplexityIssue(complexity)>>
            ELSE <<>>)

(***************************************************************************)
(* analyze_code.                                                           *)
(***************************************************************************)
StaticAnalysisResult(complexity, maintainability, cognitive, issues, patterns_found) ==
    [complexity |-> complexity,
     maintainability |-> maintainability,
     cognitive_complexity |-> cognitive,
     issues |-> issues,
     patterns_found |-> patterns_found]

\* the `except SyntaxError` branch with the cognitive complexity left at 0
SyntaxErrorResult_CognitiveZero ==
    StaticAnalysisResult(-1, -1, 0,
        <<[severity |-> "error", message |-> "Invalid Python syntax"]>>, <<>>)

\* the result of the `except SyntaxError` branch
SyntaxErrorResult ==
    StaticAnalysisResult(-1, -1, -1,
        <<[severity |-> "error", message |-> "Invalid Python syntax"]>>, <<>>)

\* analyze_code with the patterns matched before the text is parsed, and kept
\* in the result of the `except SyntaxError` branch
analyze_code_MatchesFirst(catalog, code) ==
    LET tree == Parse(code)
        maintainability == _calculate_maintainability(code)
        patterns_found == _find_patterns(catalog, code)
        failed == StaticAnalysisResult(-1, -1, -1,
                     <<[severity |-> "error", message |-> "Invalid Python syntax"]>>,
                     patterns_found)
    IN  IF tree = SyntaxError THEN Returned(failed)
        ELSE IF maintainability.exc = "SyntaxError" THEN Returned(failed)
        ELSE IF maintainability.exc # "" THEN Raised(maintainability.exc)
        ELSE Returned(StaticAnalysisResult(
                 _calculate_complexity(tree),
                 maintainability.val,
                 _calculate_cognitive_complexity(tree),
                 _collect_issues(tree, patterns_found),
                 patterns_found))

\* what a call does: it returns `val`, or `exc` escapes it
analyze_code(catalog, code) ==
    LET tree == Parse(code)
        maintainability == _calculate_maintainability(code)
        patterns_found == _find_patterns(catalog, code)
    IN  IF tree = SyntaxError THEN Returned(SyntaxErrorResult)
        ELSE IF maintainability.exc = "SyntaxError" THEN Returned(SyntaxErrorResult)
        ELSE IF maintainability.exc # "" THEN Raised(maintainability.exc)
        ELSE Returned(StaticAnalysisResult(
                 _calculate_complexity(tree),
                 maintainability.val,
                 _calculate_cognitive_complexity(tree),
                 _collect_issues(tree, patterns_found),
                 patterns_found))

(***************************************************************************)
(* The analyzer: self.patterns, and the call in progress on it.  Calls on  *)
(* one analyzer follow one another; between two calls nothing but          *)
(* self.patterns is kept.                                                  *)
(***************************************************************************)
NoCall == [op |-> "none"]

\* StaticAnalyzer()
Init ==
    /\ patterns = _setup_patterns
    /\ call = NoCall
    /\ heap = <<>>

\* analyzer.analyze_code(code), up to its return statement or to the
\* exception that escapes it
AnalyzeCode(code) ==
    /\ call' = [op |-> "analyze_code", code |-> code,
                out |-> analyze_code(patterns, code)]
    /\ UNCHANGED <<patterns, heap>>

\* the caller has the result (or the exception); the analyzer is idle again
Return ==
    /\ call.op # "none"
    /\ call' = NoCall
    /\ UNCHANGED <<patterns, heap>>

Next ==
    \/ call.op = "none" /\ \E code \in Texts(MaxLines) : AnalyzeCode(code)
    \/ Return

Spec == Init /\ [][Next]_vars

(***************************************************************************)
(* The tree metrics alone, on every tree of at most MaxNodes nodes below   *)
(* the Module node.                                                        *)
(***************************************************************************)
\* the classes of the nodes of these trees: the ones a metric counts, and
\* Name for every other class
TreeNodes ==
    {Node(k, 0, 0) : k \in DecisionClasses \cup {"Name"}}
    \cup {Node("BoolOp", 0, v) : v \in {2, 3}}

\* the ways to hang n nodes, each under the Module node (1) or under a node
\* before it
Shapes(n) == {f \in [1..n -> 1..n] : \A j \in 1..n : f[j] <= j}

\* the tree of the nodes ks hung as ps says
BuildTree(ks, ps) ==
    <<Node("Module", 0, 0)>>
    \o [j \in DOMAIN ks |-> Node(ks[j].kind, ps[j], ks[j].values)]

\* complexity = self._calculate_complexity(tree)
\* cognitive = self._calculate_cognitive_complexity(tree)
TreeMetrics(tree) ==
    /\ call' = [op |-> "tree_metrics", tree |-> tree,
                complexity |-> _calculate_complexity(tree),
                cognitive_complexity |-> _calculate_cognitive_complexity(tree)]
    /\ UNCHANGED <<patterns, heap>>

NextTree ==
    \/ /\ call.op = "none"
       /\ \E n \in 0..MaxNodes :
            \E ks \in [1..n -> TreeNodes], ps \in Shapes(n) :
                TreeMetrics(BuildTree(ks, ps))
    \/ Return

SpecTree == Init /\ [][NextTree]_vars

(***************************************************************************)
(* Pattern matching alone, on every input text, whether it parses or not.  *)
(***************************************************************************)
\* patterns_found = self._find_patterns(code)
FindPatterns(code) ==
    /\ call' = [op |-> "_find_patterns", code |-> code,
                patterns_found |-> _find_patterns(patterns, code)]
    /\ UNCHANGED <<patterns, heap>>

NextPatterns ==
    \/ call.op = "none" /\ \E code \in Texts(MaxLines) : FindPatterns(code)
    \/ Return

SpecPatterns == Init /\ [][NextPatterns]_vars

(***************************************************************************)
(* The CodeReviewer of auto_reviewer.core.reviewer.                        *)
(***************************************************************************)
\* the attributes of a CodeReviewer: those __init__ sets and the methods the
\* class defines
CodeReviewerAttributes ==
    {"config", "git", "ai_client", "patterns",
     "_setup_analysis_patterns", "review_pr", "review_local_changes",
     "_calculate_metrics", "_get_ai_review", "_build_review_prompt",
     "_structure_ai_review", "_should_ignore_file"}

\* the message of the AttributeError of self.<name>
NoAttribute(name) == "'CodeReviewer' object has no attribute '" \o name \o "'"

\* self.<name>
GetAttr(name) ==
    IF name \in CodeReviewerAttributes THEN Returned(name)
    ELSE [exc |-> "AttributeError", val |-> NoAttribute(name)]

\* the first of the outcomes that is an exception, or the last of them
RECURSIVE FirstRaised(_)
FirstRaised(outcomes) ==
    IF Len(outcomes) = 1 \/ Head(outcomes).exc # "" THEN Head(outcomes)
    ELSE FirstRaised(Tail(outcomes))

CodeMetrics(complexity, maintainability, cognitive, loc, comment_ratio) ==
    [cyclomatic_complexity |-> complexity,
     maintainability_index |-> maintainability,
     cognitive_complexity |-> cognitive,
     lines_of_code |-> loc,
     comment_ratio |-> comment_ratio]

\* what a call of the method bound to self.<name> returns
MethodResult(name) == [returned_by |-> name]

\* the try block of _calculate_metrics: ast.parse(content), then, one after
\* the other, the calls of four methods of self
MetricsBody(content) ==
    FirstRaised(<<
        IF Parse(content) = SyntaxError THEN Raised("SyntaxError") ELSE Returned("tree"),
        GetAttr("_calculate_cyclomatic_complexity"),
        GetAttr("_calculate_maintainability_index"),
        GetAttr("_calculate_cognitive_complexity"),
        GetAttr("_calculate_loc_metrics"),
        Returned(CodeMetrics(MethodResult("_calculate_cyclomatic_complexity"),
                             MethodResult("_calculate_maintainability_index"),
                             MethodResult("_calculate_cognitive_complexity"),
                             MethodResult("_calculate_loc_metrics"),
                             MethodResult("_calculate_loc_metrics"))) >>)

\* except Exception: the CodeMetrics of -1
_calculate_metrics(content) ==
    LET body == MetricsBody(content)
    IN  IF body.exc # "" THEN Returned(CodeMetrics(-1, -1, -1, -1, -1)) ELSE body

CalculateMetrics(content) ==
    /\ call' = [op |-> "_calculate_metrics", content |-> content,
                out |-> _calculate_metrics(content)]
    /\ UNCHANGED <<patterns, heap>>

NextMetrics ==
    \/ call.op = "none" /\ \E content \in Texts(MaxLines) : CalculateMetrics(content)
    \/ Return

SpecMetrics == Init /\ [][NextMetrics]_vars

(***************************************************************************)
(* auto_reviewer.core.config.  A dict is a function of its keys; a         *)
(* reference to a dict is its index in the heap.                           *)
(***************************************************************************)
\* the dicts a run allocates, at most
MaxObjects == 3

\* the dict of the return statement of get_default_config
DefaultConfig ==
    [rules |-> [max_file_changes |-> 50, complexity_threshold |-> 15,
                required_tests |-> TRUE],
     ignore_patterns |-> <<"*.md", "*.json">>]

\* get_default_config(): the dict literal is evaluated, a new dict allocated
\* and the reference to it returned
get_default_config_Shared(h) ==
    IF h # <<>> THEN [heap |-> h, ref |-> 1]
    ELSE [heap |-> Append(h, DefaultConfig), ref |-> Len(h) + 1]

get_default_config(h) == [heap |-> Append(h, DefaultConfig), ref |-> Len(h) + 1]

\* no file at a path
NoFile == [exists |-> FALSE]

\* a YAML document: the scalars are sequences of characters
File(document) == [exists |-> TRUE, document |-> document]

\* the .autoreviewerrc of the tests
CustomDocument ==
    [rules |-> [max_file_changes |-> <<"1", "0", "0">>,
                complexity_threshold |-> <<"2", "0">>,
                required_tests |-> <<"f", "a", "l", "s", "e">>],
     ignore_patterns |-> << <<"'", "*", ".", "t", "x", "t", "'">> >>]

Digits == [c \in {"0", "1", "2", "3", "4", "5", "6", "7", "8", "9"} |->
              CASE c = "0" -> 0 [] c = "1" -> 1 [] c = "2" -> 2 [] c = "3" -> 3
                [] c = "4" -> 4 [] c = "5" -> 5 [] c = "6" -> 6 [] c = "7" -> 7
                [] c = "8" -> 8 [] c = "9" -> 9]

RECURSIVE Decimal(_)
\* the number the digits write
Decimal(cs) ==
    IF Len(cs) = 0 THEN 0
    ELSE 10 * Decimal(SubSeq(cs, 1, Len(cs) - 1)) + Digits[cs[Len(cs)]]

RECURSIVE Text(_)
\* the str of the characters
Text(cs) == IF Len(cs) = 0 THEN "" ELSE Head(cs) \o Text(Tail(cs))

\* the value of a YAML scalar: a bool, an int, or a str, without its quotes
Scalar(cs) ==
    IF cs = <<"t", "r", "u", "e">> THEN TRUE
    ELSE IF cs = <<"f", "a", "l", "s", "e">> THEN FALSE
    ELSE IF \A i \in DOMAIN cs : cs[i] \in DOMAIN Digits THEN Decimal(cs)
    ELSE IF Len(cs) >= 2 /\ cs[1] = "'" /\ cs[Len(cs)] = "'"
         THEN Text(SubSeq(cs, 2, Len(cs) - 1))
    ELSE Text(cs)

\* yaml.safe_load(f) of a document {rules: {...}, ignore_patterns: [...]}
safe_load(document) ==
    [rules |-> [k \in DOMAIN document.rules |-> Scalar(document.rules[k])],
     ignore_patterns |-> [i \in DOMAIN document.ignore_patterns |->
                             Scalar(document.ignore_patterns[i])]]

\* os.path.join(os.getcwd(), ".autoreviewerrc")
WorkingDirectoryRc == "./.autoreviewerrc"

\* the paths of the model, and the files there may be at them
Paths == {"nonexistent.yaml", WorkingDirectoryRc}
FileSystems == [Paths -> {NoFile, File(CustomDocument)}]

\* Optional[str]
Str(s) == <<s>>
ConfigPaths == {None, Str("")} \cup {Str(path) : path \in Paths}

\* load_config(config_path) with the files as they are: the heap after the
\* call and the reference returned
load_config(h, config_path, files) ==
    LET path == IF config_path = None \/ config_path = Str("")
                THEN WorkingDirectoryRc
                ELSE config_path[1]
    IN  IF ~files[path].exists THEN get_default_config(h)
        ELSE [heap |-> Append(h, safe_load(files[path].document)), ref |-> Len(h) + 1]

LoadConfig(config_path, files) ==
    LET r == load_config(heap, config_path, files)
    IN  /\ heap' = r.heap
        /\ call' = [op |-> "load_config", config_path |-> config_path,
                    files |-> files, out |-> r.ref]
        /\ UNCHANGED patterns

GetDefaultConfig ==
    LET r == get_default_config(heap)
    IN  /\ heap' = r.heap
        /\ call' = [op |-> "get_default_config", out |-> r.ref]
        /\ UNCHANGED patterns

\* what a caller does to a dict it holds
Mutations == {"del config['ignore_patterns']", "config['rules']['complexity_threshold'] = 20"}

Mutated(config, mutation) ==
    IF mutation = "del config['ignore_patterns']"
    THEN [k \in DOMAIN config \ {"ignore_patterns"} |-> config[k]]
    ELSE IF "rules" \in DOMAIN config
         THEN [config EXCEPT !.rules =
                  [k \in DOMAIN config.rules \cup {"complexity_threshold"} |->
                      IF k = "complexity_threshold" THEN 20 ELSE config.rules[k]]]
    ELSE config

\* the caller changes a dict that a call returned
Mutate(ref, mutation) ==
    /\ heap' = [heap EXCEPT ![ref] = Mutated(heap[ref], mutation)]
    /\ call' = [op |-> "mutate"]
    /\ UNCHANGED patterns

NextConfig ==
    \/ Len(heap) < MaxObjects
         /\ \E config_path \in ConfigPaths, files \in FileSystems :
               LoadConfig(config_path, files)
    \/ Len(heap) < MaxObjects /\ GetDefaultConfig
    \/ \E ref \in DOMAIN heap, mutation \in Mutations : Mutate(ref, mutation)

SpecConfig == Init /\ [][NextConfig]_vars

(***************************************************************************)
(* CodeReviewer.review_local_changes.  The GitHandler is the environment:  *)
(* what its methods return or raise is an input of the call.  A file path  *)
(* is a sequence of tokens.                                                *)
(***************************************************************************)
\* the changed files of a call, at most
MaxFiles == 2

\* an exception of a class, with the text str(e) gives
Exc(class, text) == [exc |-> class, val |-> text]

\* the classes that are subclasses of BaseException and not of Exception
NotExceptionSubclasses == {"KeyboardInterrupt", "SystemExit", "GeneratorExit"}

\* a handler that catches the GitPython errors only
Catches_GitErrorsOnly(outcome) ==
    outcome.exc \in {"InvalidGitRepositoryError", "GitCommandError"}

\* except Exception: does the handler catch what the try block raised
Catches(outcome) == outcome.exc # "" /\ outcome.exc \notin NotExceptionSubclasses

\* the files of the working tree
FilePaths == {<<"a", ".", "py">>, <<"README", ".", "md">>}

\* fnmatch.translate(pattern), for the patterns of the configurations
GlobRe(pattern) ==
    LET any == Star(UNION {{path[i] : i \in DOMAIN path} : path \in FilePaths})
    IN  CASE pattern = "*.md"   -> <<any, Lit("."), Lit("md")>>
          [] pattern = "*.json" -> <<any, Lit("."), Lit("json")>>
          [] pattern = "*.txt"  -> <<any, Lit("."), Lit("txt")>>

\* fnmatch.fnmatch(file_path, pattern): the whole path matches
fnmatch(file_path, pattern) ==
    MatchItems(GlobRe(pattern), 1, file_path, 1) = Len(file_path) + 1

\* self.config.get('ignore_patterns', [...]) of a configuration that has the key
_should_ignore_file(config, file_path) ==
    \E i \in DOMAIN config.ignore_patterns :
        fnmatch(file_path, config.ignore_patterns[i])

\* the body of the for loop for one file: its outcome (an exception, or the
\* review) and the calls it made
ReviewFile(git, file_path) ==
    LET diff    == git.diff[file_path]
        content == git.content[file_path]
        metrics == _calculate_metrics(content.val)
        static  == GetAttr("_perform_static_analysis")
    IN  IF diff.exc # ""
        THEN [outcome |-> diff, log |-> <<"get_diff_for_file">>]
        ELSE IF content.exc # ""
        THEN [outcome |-> content, log |-> <<"get_diff_for_file", "get_file_content">>]
        ELSE IF metrics.exc # ""
        THEN [outcome |-> metrics,
              log |-> <<"get_diff_for_file", "get_file_content", "_calculate_metrics">>]
        ELSE IF static.exc # ""
        THEN [outcome |-> static,
              log |-> <<"get_diff_for_file", "get_file_content", "_calculate_metrics">>]
        ELSE [outcome |-> Returned([file |-> file_path, metrics |-> metrics.val]),
              log |-> <<"get_diff_for_file", "get_file_content", "_calculate_metrics",
                        "_perform_static_analysis">>]

\* the for loop from the i-th changed file on
RECURSIVE ReviewFiles(_, _, _, _, _, _)
ReviewFiles(config, git, changed_files, i, reviews, log) ==
    IF i > Len(changed_files)
    THEN LET aggregate == GetAttr("_aggregate_metrics")
         IN  IF aggregate.exc # "" THEN [outcome |-> aggregate, log |-> log]
             ELSE [outcome |-> Returned([status |-> "success",
                                         files_reviewed |-> Len(reviews),
                                         results |-> reviews]),
                   log |-> log]
    ELSE IF _should_ignore_file(config, changed_files[i])
    THEN ReviewFiles(config, git, changed_files, i + 1, reviews, log)
    ELSE LET r == ReviewFile(git, changed_files[i])
         IN  IF r.outcome.exc # "" THEN [outcome |-> r.outcome, log |-> log \o r.log]
             ELSE ReviewFiles(config, git, changed_files, i + 1,
                              Append(reviews, r.outcome.val), log \o r.log)

\* the try block of review_local_changes
ReviewBody(config, git) ==
    IF git.changed.exc # ""
    THEN [outcome |-> git.changed, log |-> <<"get_changed_files">>]
    ELSE IF git.changed.val = <<>>
    THEN [outcome |-> Returned([status |-> "success", message |-> "No changes to review"]),
          log |-> <<"get_changed_files">>]
    ELSE ReviewFiles(config, git, git.changed.val, 1, <<>>, <<"get_changed_files">>)

\* review_local_changes(): what it returns or raises, what its try block
\* raised, and the calls it made
review_local_changes(config, git) ==
    LET body == ReviewBody(config, git)
    IN  [out |-> IF Catches(body.outcome)
                 THEN Returned([status |-> "error", message |-> body.outcome.val])
                 ELSE body.outcome,
         raised |-> IF body.outcome.exc # "" THEN <<body.outcome>> ELSE <<>>,
         log |-> body.log]

\* what get_changed_files, get_diff_for_file and get_file_content do: they
\* return, or raise what GitPython and open raise, subclasses of Exception
ChangedFiles(most) == UNION {[1..n -> FilePaths] : n \in 0..most}
ChangedOutcomes ==
    {Exc("InvalidGitRepositoryError", "not a repository"),
     Exc("GitCommandError", "git diff failed")}
    \cup {Returned(files) : files \in ChangedFiles(MaxFiles)}
DiffOutcomes == {Exc("GitCommandError", "git diff failed"), Returned("diff")}
ContentOutcomes ==
    {Exc("FileNotFoundError", "No such file or directory"),
     Returned(Render(<<[indent |-> 0, kind |-> "exec", n |-> 0],
                       [indent |-> 0, kind |-> "num", n |-> 0]>>)),
     Returned(Render(<<[indent |-> 0, kind |-> "nocolon", n |-> 0]>>))}
GitHandlers ==
    [changed : ChangedOutcomes,
     diff : [FilePaths -> DiffOutcomes],
     content : [FilePaths -> ContentOutcomes]]

\* self.config: what load_config returned to __init__
ReviewerConfigs == {DefaultConfig, safe_load(CustomDocument)}

ReviewLocalChanges(config, git) ==
    \E r \in {review_local_changes(config, git)} :
        /\ call' = [op |-> "review_local_changes", config |-> config, git |-> git,
                    out |-> r.out, raised |-> r.raised, log |-> r.log]
        /\ UNCHANGED <<patterns, heap>>

NextReview ==
    \/ call.op = "none"
         /\ \E config \in ReviewerConfigs, git \in GitHandlers :
               ReviewLocalChanges(config, git)
    \/ Return

SpecReview == Init /\ [][NextReview]_vars

(***************************************************************************)
(* Calls of analyze_code one after the other on the same StaticAnalyzer.   *)
(* The call in progress remembers how the earlier calls ended: with a      *)
(* result, with the degraded result, or with an exception.                 *)
(***************************************************************************)
\* the texts of the calls that follow one another
SequenceTexts == Texts(MaxLines - 1)

\* how the earlier calls on this analyzer ended
Earlier(c) == IF "earlier" \in DOMAIN c THEN c.earlier ELSE {}

\* how a call ended
OutcomeKind(out) ==
    IF out.exc # "" THEN "raised"
    ELSE IF out.val.complexity = -1 THEN "degraded"
    ELSE "result"

\* AnalyzeAfter with a catalog that the call takes its first category from
AnalyzeAfter_Consuming(code) ==
    /\ call' = [op |-> "analyze_code", code |-> code,
                out |-> analyze_code(patterns, code), earlier |-> Earlier(call)]
    /\ patterns' = IF patterns = <<>> THEN patterns ELSE Tail(patterns)
    /\ UNCHANGED heap

AnalyzeAfter(code) ==
    /\ call' = [op |-> "analyze_code", code |-> code,
                out |-> analyze_code(patterns, code), earlier |-> Earlier(call)]
    /\ UNCHANGED <<patterns, heap>>

ReturnAfter ==
    /\ call.op = "analyze_code"
    /\ call' = [op |-> "none", earlier |-> Earlier(call) \cup {OutcomeKind(call.out)}]
    /\ UNCHANGED <<patterns, heap>>

NextCalls ==
    \/ call.op = "none" /\ \E code \in SequenceTexts : AnalyzeAfter(code)
    \/ ReturnAfter

SpecCalls == Init /\ [][NextCalls]_vars

(***************************************************************************)
(* Properties of analyze_code.                                             *)
(***************************************************************************)
Analyzed == call.op = "analyze_code"
\* the call returned a StaticAnalysisResult
ReturnedResult == Analyzed /\ call.out.exc = ""
\* the call returned the result of a text that parses
ReturnedParsed == ReturnedResult /\ Parse(call.code) # SyntaxError

\* C1: analyze_code is total: whatever the text, no exception escapes it, and
\* the Halstead volume, the argument of the logarithm of the maintainability
\* computation, is never 0.
C1_AnalyzeCodeTotal ==
    Analyzed =>
        /\ call.out.exc = ""
        /\ Parse(call.code) # SyntaxError => HalsteadVolume(call.code) > 0

IsDegraded(r) == r.complexity = -1
OtherMetricsDegraded(r) == r.maintainability = -1 /\ r.cognitive_complexity = -1
SingleErrorIssue(r) == Len(r.issues) = 1 /\ r.issues[1].severity = "error"
NoPatterns(r) == r.patterns_found = <<>>

\* C2, as claimed: in every result returned, complexity = -1, every other
\* metric = -1, issues = [one error issue] and patterns_found = {} are
\* equivalent.
C2_FourWayEquivalence ==
    ReturnedResult =>
        LET r == call.out.val
        IN  /\ IsDegraded(r) <=> OtherMetricsDegraded(r)
            /\ IsDegraded(r) <=> SingleErrorIssue(r)
            /\ IsDegraded(r) <=> NoPatterns(r)

\* C2, amended: in every result returned, complexity = -1, maintainability =
\* -1, cognitive_complexity = -1 and issues = [one error issue] are
\* equivalent, they hold exactly when the text does not parse, and they imply
\* that patterns_found is empty; no result of a text that parses has an issue
\* of severity error.
C2_Degradation ==
    ReturnedResult =>
        LET r == call.out.val
        IN  /\ IsDegraded(r) <=> Parse(call.code) = SyntaxError
            /\ IsDegraded(r) <=> r.maintainability = -1
            /\ IsDegraded(r) <=> r.cognitive_complexity = -1
            /\ IsDegraded(r) <=> SingleErrorIssue(r)
            /\ IsDegraded(r) => NoPatterns(r)
            /\ \A i \in DOMAIN r.issues :
                 r.issues[i].severity = "error" => IsDegraded(r)

\* a degraded result is returned
C2_Witness == ReturnedResult /\ IsDegraded(call.out.val) /\ NoPatterns(call.out.val)

\* the one issue of a text that does not parse, with the message given
SyntaxErrorOutcome(message) ==
    /\ call.out.exc = ""
    /\ Len(call.out.val.issues) = 1
    /\ call.out.val.issues[1].severity = "error"
    /\ call.out.val.issues[1].message = message
    /\ "line" \notin DOMAIN call.out.val.issues[1]
    /\ call.out.val.patterns_found = <<>>

\* C3, as claimed: for a text that does not parse, neither the patterns nor
\* the complexity are looked at, and the issues are one issue of severity
\* error, message "invalid syntax" and no line.
C3_InvalidSyntaxMessage ==
    (Analyzed /\ Parse(call.code) = SyntaxError) => SyntaxErrorOutcome("invalid syntax")

\* C3, amended: the same, the message being "Invalid Python syntax".
C3_SyntaxErrorIssue ==
    (Analyzed /\ Parse(call.code) = SyntaxError)
        => SyntaxErrorOutcome("Invalid Python syntax")

\* a text that does not parse and that a rule of the catalog matches
C3_Witness ==
    /\ Analyzed
    /\ Parse(call.code) = SyntaxError
    /\ _find_patterns(patterns, call.code) # <<>>
    /\ call.out.exc = ""

\* C6: for every text that parses, analyze_code returns a maintainability in
\* [0, 100].
C6_MaintainabilityRange ==
    (Analyzed /\ Parse(call.code) # SyntaxError) =>
        /\ call.out.exc = ""
        /\ call.out.val.maintainability >= 0
        /\ call.out.val.maintainability <= 100 * Milli

\* the issues that come from the complexity check: the ones with no line
ComplexityIssues(r) == {i \in DOMAIN r.issues : r.issues[i].line = None}
\* the issues that come from findings
FindingIssues(r) == {i \in DOMAIN r.issues : r.issues[i].line # None}

\* C7: for every text that parses, the issues hold a complexity issue iff the
\* complexity reported is > 10; there is at most one, of severity medium, with
\* no line and a message holding the complexity reported.
C7_ComplexityIssue ==
    ReturnedParsed =>
        LET r == call.out.val
        IN  /\ ComplexityIssues(r) # {} <=> r.complexity > 10
            /\ Cardinality(ComplexityIssues(r)) <= 1
            /\ \A i \in ComplexityIssues(r) :
                 /\ r.issues[i].severity = "medium"
                 /\ r.issues[i].message
                      = "High cyclomatic complexity: " \o ToString(r.complexity)

\* a complexity just above the threshold, reported
C7_Witness ==
    /\ ReturnedParsed
    /\ call.out.val.complexity = 11
    /\ ComplexityIssues(call.out.val) # {}

\* C8: for every text that parses, the issues with a line and the findings of
\* patterns_found match one to one: each finding has as many issues of its
\* category, line and description as it occurs among the findings, each such
\* issue comes from a finding, and its severity is high iff its category is
\* security, medium otherwise.
C8_FindingIssues ==
    ReturnedParsed =>
        LET r == call.out.val
            pf == r.patterns_found
            IssuesOf(key, f) ==
                {i \in FindingIssues(r) :
                    /\ r.issues[i].category = key
                    /\ r.issues[i].line = <<f[1]>>
                    /\ r.issues[i].message = f[2]}
        IN  /\ \A c \in DOMAIN pf : \A j \in DOMAIN pf[c].value :
                 Cardinality(IssuesOf(pf[c].key, pf[c].value[j]))
                   = Cardinality({k \in DOMAIN pf[c].value :
                                     pf[c].value[k] = pf[c].value[j]})
            /\ \A i \in FindingIssues(r) :
                 /\ \E c \in DOMAIN pf : \E j \in DOMAIN pf[c].value :
                      i \in IssuesOf(pf[c].key, pf[c].value[j])
                 /\ r.issues[i].severity
                      = IF r.issues[i].category = "security" THEN "high" ELSE "medium"

\* findings of the category security and of another one
C8_Witness ==
    /\ ReturnedParsed
    /\ \E c, d \in DOMAIN call.out.val.patterns_found :
         /\ call.out.val.patterns_found[c].key = "security"
         /\ call.out.val.patterns_found[d].key # "security"

\* the place of a category in the declaration of the catalog
CategoryRank(key) ==
    CASE key = "security" -> 1
      [] key = "performance" -> 2
      [] key = "maintainability" -> 3

RECURSIVE FindingsBefore(_, _)
\* how many findings the items of patterns_found before the c-th hold
FindingsBefore(pf, c) ==
    IF c <= 1 THEN 0 ELSE Len(pf[c - 1].value) + FindingsBefore(pf, c - 1)

\* C9: for every text that parses, the issues of the findings come first,
\* category by category in the order security, performance, maintainability,
\* each category's in the order of its findings in patterns_found; the
\* complexity issue, if any, is the last issue.
C9_IssueOrder ==
    ReturnedParsed =>
        LET r == call.out.val
            pf == r.patterns_found
            n == FindingsBefore(pf, Len(pf) + 1)
        IN  /\ \A c, d \in DOMAIN pf :
                 c < d => CategoryRank(pf[c].key) < CategoryRank(pf[d].key)
            /\ Len(r.issues) \in {n, n + 1}
            /\ \A c \in DOMAIN pf : \A j \in DOMAIN pf[c].value :
                 LET issue == r.issues[FindingsBefore(pf, c) + j]
                 IN  /\ issue.category = pf[c].key
                     /\ issue.line = <<pf[c].value[j][1]>>
                     /\ issue.message = pf[c].value[j][2]
            /\ \A i \in ComplexityIssues(r) : i = Len(r.issues)

\* findings of two categories, and a complexity issue after their issues
C9_Witness ==
    /\ ReturnedParsed
    /\ Len(call.out.val.patterns_found) >= 2
    /\ ComplexityIssues(call.out.val) # {}

(***************************************************************************)
(* Properties of the tree metrics.                                         *)
(***************************************************************************)
\* the node categories of the specification, as classes of ast nodes: a try
\* statement with one handler has one ExceptionHandler node, the handler
Branch == {"If"}
Loop == {"While", "For", "AsyncFor"}
ExceptionHandler == {"ExceptHandler"}
ScopeEntry == {"With", "AsyncWith"}
Assertion == {"Assert"}

\* the nodes of the tree of one of the classes
NodesOf(tree, classes) == {i \in DOMAIN tree : tree[i].kind \in classes}

RECURSIVE SumOver(_, _)
\* the sum of weight[i] over the i of S
SumOver(S, weight) ==
    IF S = {} THEN 0
    ELSE LET i == CHOOSE i \in S : TRUE IN weight[i] + SumOver(S \ {i}, weight)

\* the sum, over the BoolOp nodes, of the operands but one
ExtraOperands(tree) ==
    SumOver(NodesOf(tree, {"BoolOp"}), [i \in DOMAIN tree |-> tree[i].values - 1])

RECURSIVE Ancestors(_, _)
\* the proper ancestors of node i
Ancestors(tree, i) ==
    IF tree[i].parent = 0 THEN {}
    ELSE {tree[i].parent} \cup Ancestors(tree, tree[i].parent)

\* the sum, over the nodes of the classes, of 1 + the number of their proper
\* ancestors of the classes
NestingWeightedCount(tree, classes) ==
    SumOver(NodesOf(tree, classes),
            [i \in DOMAIN tree |->
                1 + Cardinality(Ancestors(tree, i) \cap NodesOf(tree, classes))])

Measured == call.op = "tree_metrics"

\* C4, as claimed: the cyclomatic complexity of a tree is 1 + the number of its
\* Branch, Loop, ExceptionHandler, ScopeEntry and Assertion nodes + the sum over
\* its BoolOp nodes of the operands but one; no other node counts, a try
\* statement with one handler adding 1.
C4_HandlersOnly ==
    Measured =>
        call.complexity
          = 1 + Cardinality(NodesOf(call.tree,
                    Branch \cup Loop \cup ExceptionHandler \cup ScopeEntry \cup Assertion))
              + ExtraOperands(call.tree)

\* C4, amended: the Try nodes count as well, 1 each, so that a try statement
\* with one handler adds 2; a tree with one of the nodes counted has a
\* complexity > 1.
C4_Complexity ==
    Measured =>
        LET counted == NodesOf(call.tree,
                           Branch \cup Loop \cup ExceptionHandler \cup ScopeEntry
                           \cup Assertion \cup {"Try"})
        IN  /\ call.complexity = 1 + Cardinality(counted) + ExtraOperands(call.tree)
            /\ counted # {} => call.complexity > 1

\* a try statement with one handler: complexity 1 + 2
C4_Witness ==
    /\ Measured
    /\ call.tree = <<Node("Module", 0, 0), Node("Try", 1, 0), Node("ExceptHandler", 2, 0)>>
    /\ call.complexity = 3

\* C5, as claimed: the cognitive complexity of a tree is the sum, over its
\* Branch, Loop and ExceptionHandler nodes, of 1 + the number of their proper
\* ancestors of these categories.
C5_CategoriesNested ==
    Measured =>
        call.cognitive_complexity
          = NestingWeightedCount(call.tree, Branch \cup Loop \cup ExceptionHandler)

\* C5, amended: the sum is over the If, While, For and Try nodes (the try
\* statement, not its handlers; not async for), each adding 1 + the number of
\* its proper ancestors among these; BoolOp, With and every other node add
\* nothing and nest nothing.  A loop holding a branch holding a branch has 6.
C5_Cognitive ==
    Measured =>
        /\ call.cognitive_complexity
             = NestingWeightedCount(call.tree, {"If", "While", "For", "Try"})
        /\ call.tree = <<Node("Module", 0, 0), Node("For", 1, 0), Node("If", 2, 0),
                         Node("If", 3, 0)>>
             => call.cognitive_complexity = 6

\* a loop holding a branch holding a branch
C5_Witness ==
    /\ Measured
    /\ call.tree = <<Node("Module", 0, 0), Node("For", 1, 0), Node("If", 2, 0),
                     Node("If", 3, 0)>>
    /\ call.cognitive_complexity = 1 + 2 + 3

(***************************************************************************)
(* Properties of _find_patterns.                                           *)
(***************************************************************************)
Searched == call.op = "_find_patterns"

\* the positions of the text where the rule matches
MatchStarts(rule, code) ==
    {p \in 1..Len(code) : MatchAt(rule.pattern, 1, code, p) # 0}

\* the non-overlapping matches of the rule, taken from the left: a match is
\* one of them unless it starts inside one of them that starts before it
NonOverlapping(rule, code) ==
    LET starts == MatchStarts(rule, code)
        Inside(p, S) ==
            \E q \in S : q < p /\ p < MatchAt(rule.pattern, 1, code, q)
    IN  CHOOSE S \in SUBSET starts :
            \A p \in starts : p \in S <=> ~Inside(p, S)

\* the values of the dict under the key
ValuesUnder(dict, key) == {dict[i].value : i \in {j \in DOMAIN dict : dict[j].key = key}}

\* the text holds the tokens, one after the other, somewhere
Holds(code, tokens) ==
    \E p \in 1..Len(code) :
        /\ p + Len(tokens) - 1 <= Len(code)
        /\ \A j \in DOMAIN tokens : code[p + j - 1] = tokens[j]

\* C10: _find_patterns(text) has a key for a category iff a rule of the
\* category matches the text, never with an empty list, and the list under the
\* key has one finding for every non-overlapping match of every rule of the
\* category; a text with an os.system call and an exec( call has two security
\* findings or more, one with a range(len( loop a performance finding or more.
C10_PatternsFound ==
    Searched =>
        /\ \A c \in DOMAIN patterns :
              LET category == patterns[c].category
                  rules    == patterns[c].rules
                  under    == ValuesUnder(call.patterns_found, category)
                  keys     == {i \in DOMAIN call.patterns_found :
                                  call.patterns_found[i].key = category}
              IN  /\ Cardinality(keys) <= 1
                  /\ keys # {} <=> \E k \in DOMAIN rules : MatchStarts(rules[k], call.code) # {}
                  /\ \A findings \in under :
                        /\ findings # <<>>
                        /\ \A k \in DOMAIN rules :
                              Cardinality({j \in DOMAIN findings :
                                              findings[j][2] = rules[k].description})
                                = Cardinality(NonOverlapping(rules[k], call.code))
                        /\ \A j \in DOMAIN findings :
                              \E k \in DOMAIN rules : findings[j][2] = rules[k].description
        /\ \A i \in DOMAIN call.patterns_found :
              \E c \in DOMAIN patterns : patterns[c].category = call.patterns_found[i].key
        /\ Holds(call.code, <<"os", ".", "system", "(">>) /\ Holds(call.code, <<"exec", "(">>)
              => \E findings \in ValuesUnder(call.patterns_found, "security") :
                    Len(findings) >= 2
        /\ Holds(call.code, <<"range", "(", "len", "(">>)
              => \E findings \in ValuesUnder(call.patterns_found, "performance") :
                    Len(findings) >= 1

\* a text with an os.system call, an exec( call and a range(len( loop:
\* security and performance are keys, maintainability is not
C10_Witness ==
    /\ Searched
    /\ Holds(call.code, <<"os", ".", "system", "(">>)
    /\ Holds(call.code, <<"exec", "(">>)
    /\ Holds(call.code, <<"range", "(", "len", "(">>)
    /\ ValuesUnder(call.patterns_found, "security") # {}
    /\ ValuesUnder(call.patterns_found, "performance") # {}
    /\ ValuesUnder(call.patterns_found, "maintainability") = {}

\* the number of newlines of the text strictly before position p: the lines
\* of the text before p but one
NewlinesBefore(code, p) == Len(Split(SubSeq(code, 1, p - 1))) - 1

RECURSIVE Ascending(_)
\* the elements of a set of numbers, from the least on
Ascending(S) ==
    IF S = {} THEN <<>>
    ELSE LET least == CHOOSE p \in S : \A q \in S : p <= q
         IN  <<least>> \o Ascending(S \ {least})

\* the findings of the list with the description
WithDescription(findings, description) ==
    SelectSeq(findings, LAMBDA f : f[2] = description)

\* C11: the line number of every finding is 1 + the number of newlines
\* strictly before the start of its match: it is >= 1 and at most the number
\* of lines of the text, and a match over several lines is reported at the
\* line it starts at.
C11_LineNumbers ==
    Searched =>
        \A c \in DOMAIN patterns :
            \A findings \in ValuesUnder(call.patterns_found, patterns[c].category) :
                /\ \A j \in DOMAIN findings :
                      /\ findings[j][1] >= 1
                      /\ findings[j][1] <= Len(Split(call.code))
                /\ \A k \in DOMAIN patterns[c].rules :
                      LET rule   == patterns[c].rules[k]
                          starts == Ascending(NonOverlapping(rule, call.code))
                          found  == WithDescription(findings, rule.description)
                      IN  /\ Len(found) = Len(starts)
                          /\ \A j \in DOMAIN found :
                                found[j][1] = NewlinesBefore(call.code, starts[j]) + 1

\* a match that starts at the second line and ends at the third
C11_Witness ==
    /\ Searched
    /\ \E c \in DOMAIN patterns : \E k \in DOMAIN patterns[c].rules :
          LET rule == patterns[c].rules[k]
          IN  \E p \in NonOverlapping(rule, call.code) :
                 /\ NewlinesBefore(call.code, p) = 1
                 /\ NewlinesBefore(call.code, MatchAt(rule.pattern, 1, call.code, p)) = 2
                 /\ \E findings \in ValuesUnder(call.patterns_found, patterns[c].category) :
                       \E j \in DOMAIN findings :
                          findings[j] = <<2, rule.description>>

\* the tree is built from constructs of the classes: its other nodes are the
\* module and names
BuiltFrom(tree, classes) ==
    \A i \in DOMAIN tree : tree[i].kind \in classes \cup {"Module", "Name"}

\* one of the nodes of the classes is inside another
Nested(tree, classes) ==
    \E i \in NodesOf(tree, classes) : Ancestors(tree, i) \cap NodesOf(tree, classes) # {}

\* C12, as claimed: for a tree built from n Branch, Loop and ExceptionHandler
\* constructs, the cognitive complexity and the cyclomatic complexity - 1 are
\* both n if no construct is inside another, and the cognitive complexity is
\* the larger if one is.
C12_CategoriesFlatNested ==
    LET constructs == Branch \cup Loop \cup ExceptionHandler
        n == Cardinality(NodesOf(call.tree, constructs))
    IN  (Measured /\ BuiltFrom(call.tree, constructs)) =>
            IF Nested(call.tree, constructs)
            THEN call.cognitive_complexity > call.complexity - 1
            ELSE call.cognitive_complexity = n /\ call.complexity - 1 = n

\* C12, amended: the same of a tree built from n if, while and for
\* statements (ast.If, ast.While, ast.For): an async for or an except handler
\* is counted by the cyclomatic complexity alone, a try statement with its
\* handlers more often by the cyclomatic complexity than by the cognitive.
C12_FlatNested ==
    LET constructs == {"If", "While", "For"}
        n == Cardinality(NodesOf(call.tree, constructs))
    IN  (Measured /\ BuiltFrom(call.tree, constructs)) =>
            /\ call.complexity - 1 = n
            /\ IF Nested(call.tree, constructs)
               THEN call.cognitive_complexity > call.complexity - 1
               ELSE call.cognitive_complexity = n

\* three constructs, one inside another: 3 against 1 + 2 + 1
C12_Witness ==
    /\ Measured
    /\ call.tree = <<Node("Module", 0, 0), Node("While", 1, 0), Node("If", 2, 0),
                     Node("For", 1, 0)>>
    /\ call.complexity - 1 = 3
    /\ call.cognitive_complexity = 4

(***************************************************************************)
(* Properties of the calls that follow one another.                        *)
(***************************************************************************)
\* C13: analyze_code is deterministic and leaves no state behind: whatever
\* the earlier calls on the analyzer and however they ended, a call ends as
\* the call of a fresh analyzer on the text does, and the catalog is the one
\* _setup_patterns made.
C13_Deterministic ==
    /\ patterns = _setup_patterns
    /\ Analyzed => call.out = analyze_code(_setup_patterns, call.code)

\* a call that finds patterns, after calls that ended in each of the ways
C13_Witness ==
    /\ Analyzed
    /\ Earlier(call) = {"result", "degraded", "raised"}
    /\ call.out.exc = ""
    /\ call.out.val.patterns_found # <<>>
    /\ call.out = analyze_code(_setup_patterns, call.code)

(***************************************************************************)
(* Properties of the CodeReviewer.                                         *)
(***************************************************************************)
\* the fields of a CodeMetrics
MetricsFields ==
    {"cyclomatic_complexity", "maintainability_index", "cognitive_complexity",
     "lines_of_code", "comment_ratio"}

\* C14: _calculate_metrics never raises, and of the five fields of the
\* CodeMetrics it returns either all are -1 or none is; all are -1 exactly
\* when the content does not parse, and content that parses has a
\* cyclomatic_complexity >= 1.
C14_SentinelOnParseFailure ==
    call.op = "_calculate_metrics" =>
        /\ call.out.exc = ""
        /\ \/ \A f \in MetricsFields : call.out.val[f] = -1
           \/ \A f \in MetricsFields : call.out.val[f] # -1
        /\ call.out.val.cyclomatic_complexity = -1 <=> Parse(call.content) = SyntaxError
        /\ Parse(call.content) # SyntaxError => call.out.val.cyclomatic_complexity >= 1

(***************************************************************************)
(* Properties of load_config.                                              *)
(***************************************************************************)
\* the call was given a path, and there is no file at it
NoFileAtPath ==
    /\ call.op = "load_config"
    /\ call.config_path \notin {None, Str("")}
    /\ ~call.files[call.config_path[1]].exists

\* C15: load_config with a path at which there is no file returns a
\* configuration equal to the one get_default_config() returns, with the keys
\* rules and ignore_patterns, whatever the calls made before and whatever the
\* callers did to the dicts those returned.
C15_DefaultConfig ==
    NoFileAtPath =>
        LET default == get_default_config(heap)
        IN  /\ heap[call.out] = default.heap[default.ref]
            /\ {"rules", "ignore_patterns"} \subseteq DOMAIN heap[call.out]

\* the call follows two calls whose dicts the callers changed
C15_Witness ==
    /\ NoFileAtPath
    /\ call.out = 3
    /\ "ignore_patterns" \notin DOMAIN heap[1]
    /\ heap[2].rules.complexity_threshold = 20
    /\ heap[call.out] = DefaultConfig

(***************************************************************************)
(* Properties of review_local_changes.                                     *)
(***************************************************************************)
Reviewed == call.op = "review_local_changes"

\* the calls of the log that read or analyse a file
FileCalls(log) ==
    {i \in DOMAIN log : log[i] \in {"get_diff_for_file", "get_file_content",
                                    "_calculate_metrics", "_perform_static_analysis"}}

\* C16: review_local_changes lets no exception out: whatever is raised while
\* the changed files are listed, a file read or analysed, it returns a dict of
\* status "error" with the text of the exception as message; with no changed
\* file it returns status "success", message "No changes to review", and
\* neither reads nor analyses a file.
C16_NoExceptionEscapes ==
    Reviewed =>
        /\ call.out.exc = ""
        /\ \A e \in {call.raised[i] : i \in DOMAIN call.raised} :
              call.out.val = [status |-> "error", message |-> e.val]
        /\ call.git.changed.exc # ""
              => call.out.val = [status |-> "error", message |-> call.git.changed.val]
        /\ (call.git.changed.exc = "" /\ call.git.changed.val = <<>>)
              => /\ call.out.val = [status |-> "success", message |-> "No changes to review"]
                 /\ FileCalls(call.log) = {}

\* a file that is not ignored cannot be read: the error of the read is returned
C16_Witness ==
    /\ Reviewed
    /\ call.git.changed.exc = ""
    /\ call.git.changed.val = << <<"README", ".", "md">>, <<"a", ".", "py">> >>
    /\ call.git.diff[<<"a", ".", "py">>].exc = ""
    /\ call.git.content[<<"a", ".", "py">>].exc = "FileNotFoundError"
    /\ call.log = <<"get_changed_files", "get_diff_for_file", "get_file_content">>
    /\ call.out = Returned([status |-> "error", message |-> "No such file or directory"])

====
